---------------------------- MODULE Spec2Model ----------------------------
(***************************************************************************)
(* A model of include/grpc++/impl/call.h: the call-operation traits        *)
(* (CallOpSendInitialMetadata ... CallOpClientRecvStatus), their           *)
(* composition into a six-slot CallOpSet / SneakyCallOpSet, FillOps and    *)
(* FinalizeResult.  One batch is constructed, armed, submitted, completed  *)
(* by the native core and finalized by the completion queue.               *)
(***************************************************************************)
EXTENDS Integers, Sequences, FiniteSets, TLC

\* ------------------------------------------------------------------ bounds
\* CallOpSet has six template slots Op1..Op6.
NumSlots == 6
\* Slots 1..MaxTraits take any trait kind; the remaining slots keep the
\* template default CallNoOp.
MaxTraits == 2
\* Largest size of a byte buffer on the wire; a Call's max_message_size is 0
\* (no limit) or one less than this.
MaxMsgSize == 2
\* PerformOps calls on one reused batch.
MaxSubmits == 2
\* Leading slots that hold traits in the specification of a reused batch.
ReuseTraits == 1
\* set_output_tag calls counted up to this number.
MaxTagCalls == 2
\* Traits of the batches whose return tag is overridden.
TagTraits == 1

Slots == 1..NumSlots

\* ------------------------------------------------------------- value sets
Kinds == {"CallNoOp", "CallOpSendInitialMetadata", "CallOpSendMessage",
          "CallOpRecvMessage", "CallOpGenericRecvMessage",
          "CallOpClientSendClose", "CallOpServerSendStatus",
          "CallOpRecvInitialMetadata", "CallOpClientRecvStatus"}

RecvKinds == {"CallOpRecvMessage", "CallOpGenericRecvMessage"}

\* A pointer is <<>> (nullptr) or <<x>> (points at x).
NULL == <<>>
Ptr(x) == <<x>>
Deref(p) == p[1]

\* grpc_status_code / StatusCode values used: OK and UNKNOWN.
StatusCodes == {0, 2}
Details == {"", "err"}
\* Status(code, details)
Status(code, details) == [code |-> code, details |-> details]

\* std::multimap<string,string>: a sequence of <<key, value>> in key order.
MetadataMaps == {<<>>, << <<"k", "v">> >>}
\* grpc_metadata array: a sequence of [key, value] entries.
NoMetadata == <<>>

\* Messages are "m0" (a destination's prior content) and "m1" (a payload).
\* A grpc_byte_buffer: its wire size, whether it parses, and its payload.
\* On the wire: well-formed buffers of the smallest and the largest size, and
\* a malformed one.
Buffers ==
  [size : {1, MaxMsgSize}, wellformed : {TRUE}, payload : {"m1"}]
    \cup {[size |-> 1, wellformed |-> FALSE, payload |-> "m1"]}

\* What the native core can hand back: a byte buffer or none, trailing or
\* initial metadata, a status detail string or none.
BufPtrs == {NULL} \cup {Ptr(b) : b \in Buffers}
MetadataArrays == {NoMetadata, <<[key |-> "k", value |-> "v"]>>}
\* The statuses the core delivers to the client: code, detail string (absent
\* or present, empty or not) and trailing metadata.
NativeStatuses ==
  {[code |-> 0, details |-> NULL, md |-> NoMetadata],
   [code |-> 0, details |-> Ptr(""), md |-> <<[key |-> "k", value |-> "v"]>>],
   [code |-> 2, details |-> Ptr("err"), md |-> <<[key |-> "k", value |-> "v"]>>],
   [code |-> 2, details |-> NULL, md |-> NoMetadata]}
\* The statuses a server sends, each with its trailing metadata.
SentStatuses ==
  {[st |-> Status(c, d), md |-> IF c = 0 THEN <<>> ELSE << <<"k", "v">> >>] :
     c \in StatusCodes, d \in Details}

\* A pointer field no constructor initializes; nothing reads it before it
\* is assigned.
Unset == Ptr("indeterminate")
\* recv_buf_ as the constructors of the receive-message traits leave it:
\* uninitialized.  The core assigns it when it completes the trait's op; a
\* FinishOp that runs without that reads an indeterminate pointer.
UnsetBuf == Ptr([size |-> 0, wellformed |-> FALSE, payload |-> "indeterminate"])
\* A word no constructor initializes and that nothing has assigned: it
\* holds whatever the memory under the object held (zero, a fill pattern,
\* what an earlier object left there), so it stands for every value of its
\* type; the model never compares it with a value.
Word == "indeterminate"
\* The fields send_status_code_, trailing_metadata_count_ and
\* trailing_metadata_ of CallOpServerSendStatus as its constructor leaves
\* them: each an indeterminate word of its own.  The code never tests
\* them: AddOp copies them into the op, whatever they hold.
Indeterminate == [code |-> Word, count |-> Word, md |-> Ptr(Word)]

\* Completion tags: the batch's own address and another tag.
Self == "self"
Tags == {Self, "t1"}

VARIABLES
  kinds,              \* Op1..Op6 of the CallOpSet instantiation
  sneaky,             \* TRUE: the batch is a SneakyCallOpSet
  traits,             \* the six trait sub-objects (their fields)
  max_message_size_,  \* CallOpSetInterface::max_message_size_
  return_tag_,        \* CallOpSet::return_tag_
  ops, nops,          \* the grpc_op array and count FillOps filled
  fillTrace,          \* slots whose AddOp appended an op, in order
  pending,            \* slots whose op the native core has not completed
  phase,              \* "idle", "submitted", "finalized", "fatal"
  status,             \* *status of FinalizeResult
  tag,                \* *tag of FinalizeResult
  ret,                \* FinalizeResult's return value, once it returned
  messages,           \* caller-owned message destinations, one per slot
  recv_status,        \* caller-owned Status destinations, one per slot
  context,            \* the ClientContext
  destroyed,          \* per slot: grpc_byte_buffer_destroy calls on a buffer
  deserialized,       \* per slot: Deserialize calls
  finishTrace,        \* slots whose FinishOp ran, in order
  statusTrace,        \* *status before the first and after each FinishOp
  armed,              \* slots an arm operation succeeded on
  armedOutOfOrder,    \* some slot was armed after a higher slot
  lastTagSet,         \* argument of the latest set_output_tag, NULL if none
  nTagCalls,          \* number of set_output_tag calls (capped)
  rawSuccess,         \* *status as the completion queue passed it in
  tagIn,              \* *tag as the completion queue passed it in
  pre,                \* the batch as FinalizeResult found it
  reuse,              \* the caller keeps calling the batch after submitting
  nSubmits,           \* number of PerformOps calls on the batch
  nSurfaced,          \* number of FinalizeResult calls that returned true
  sendReleased,       \* per slot: destroy calls on the buffer in send_buf_
  sendReturned        \* what the latest SendMessage returned, NULL if none

vars == <<kinds, sneaky, traits, max_message_size_, return_tag_, ops, nops,
          fillTrace, pending, phase, status, tag, ret, messages, recv_status,
          context, destroyed, deserialized, finishTrace, statusTrace, armed,
          armedOutOfOrder, lastTagSet, nTagCalls, rawSuccess,
          tagIn, pre, reuse, nSubmits, nSurfaced, sendReleased,
          sendReturned>>

\* ------------------------------------------------- external collaborators
\* FillMetadataArray(metadata): one native entry per multimap entry.
FillMetadataArray(metadata) ==
  [i \in 1..Len(metadata) |-> [key |-> metadata[i][1], value |-> metadata[i][2]]]

\* FillMetadataMap(arr, metadata): insert every entry of arr into *metadata.
FillMetadataMap(arr, metadata) ==
  metadata \o [i \in 1..Len(arr) |-> <<arr[i].key, arr[i].value>>]

\* The buffer SerializationTraits<M>::Serialize(message, bp) builds.
Serialize(message) ==
  [size |-> 1, wellformed |-> TRUE, payload |-> message]

\* What Serialize(message, bp) leaves in *bp, which held old: the buffer it
\* built when it stored one, old when it left *bp alone.  A codec that
\* succeeds stores its buffer; a codec that fails may have stored one
\* before it failed.
SerializeInto(old, message, stores) ==
  IF stores THEN Ptr(Serialize(message)) ELSE old

\* SerializationTraits<R>::Deserialize(buf, message, max_message_size).IsOk()
DeserializeIsOk(buf, max_message_size) ==
  /\ buf.wellformed
  /\ (max_message_size > 0 => buf.size <= max_message_size)

\* ------------------------------------------------------------ constructors
\* The fields of a freshly constructed trait.  Fields the constructor leaves
\* uninitialized take the indeterminate values u.
NewTrait(kind, u) ==
  CASE kind = "CallNoOp" -> [kind |-> kind]
    [] kind = "CallOpSendInitialMetadata" ->
         [kind |-> kind, send_ |-> FALSE,
          initial_metadata_count_ |-> 0, initial_metadata_ |-> Unset]
    [] kind = "CallOpSendMessage" -> [kind |-> kind, send_buf_ |-> NULL]
    [] kind = "CallOpRecvMessage" ->
         [kind |-> kind, got_message |-> FALSE, message_ |-> NULL,
          recv_buf_ |-> UnsetBuf]
    [] kind = "CallOpGenericRecvMessage" ->
         [kind |-> kind, got_message |-> FALSE, deserialize_ |-> NULL,
          recv_buf_ |-> UnsetBuf]
    [] kind = "CallOpClientSendClose" -> [kind |-> kind, send_ |-> FALSE]
    [] kind = "CallOpServerSendStatus" ->
         [kind |-> kind, send_status_available_ |-> FALSE,
          send_status_code_ |-> u.code, send_status_details_ |-> "",
          trailing_metadata_count_ |-> u.count, trailing_metadata_ |-> u.md]
    [] kind = "CallOpRecvInitialMetadata" ->
         [kind |-> kind, recv_initial_metadata_ |-> NULL,
          recv_initial_metadata_arr_ |-> NoMetadata]
    [] kind = "CallOpClientRecvStatus" ->
         [kind |-> kind, recv_trailing_metadata_ |-> NULL,
          recv_status_ |-> NULL, recv_trailing_metadata_arr_ |-> NoMetadata,
          status_code_ |-> 0, status_details_ |-> NULL]


\* The batch types: any kinds in slots 1..MaxTraits, CallNoOp in the rest.
Compositions ==
  {[i \in Slots |-> IF i <= MaxTraits THEN p[i] ELSE "CallNoOp"] :
     p \in [1..MaxTraits -> Kinds]}

InitBatch ==
  /\ kinds \in Compositions
  /\ sneaky \in BOOLEAN
  /\ traits = [i \in Slots |-> NewTrait(kinds[i], Indeterminate)]
  /\ max_message_size_ = 0
  /\ return_tag_ = Self
  /\ ops = <<>> /\ nops = 0 /\ fillTrace = <<>>
  /\ pending = {}
  /\ phase = "idle"
  /\ status = FALSE /\ tag = Self /\ ret = FALSE
  /\ messages = [i \in Slots |-> "m0"]
  /\ recv_status = [i \in Slots |-> Status(2, "err")]
  /\ context = [initial_metadata_received_ |-> FALSE,
                recv_initial_metadata_ |-> <<>>,
                trailing_metadata_ |-> <<>>]
  /\ destroyed = [i \in Slots |-> 0]
  /\ deserialized = [i \in Slots |-> 0]
  /\ finishTrace = <<>> /\ statusTrace = <<>>
  /\ armed = {} /\ armedOutOfOrder = FALSE
  /\ lastTagSet = NULL /\ nTagCalls = 0
  /\ rawSuccess = FALSE /\ tagIn = Self
  /\ pre = NULL
  /\ nSubmits = 0 /\ nSurfaced = 0
  /\ sendReleased = [i \in Slots |-> 0]
  /\ sendReturned = NULL

\* A caller that arms the batch, submits it once and waits for its completion.
Init == InitBatch /\ reuse = FALSE

\* ------------------------------------------------------------ arm operations
\* When the caller calls an arm operation or set_output_tag: before the
\* batch is submitted, and at any later time when it reuses the batch (no
\* arm operation tests whether the batch was submitted).
ArmAllowed == phase = "idle" \/ (reuse /\ phase /= "fatal")

\* When the caller hands the batch to Call::PerformOps: once, and again
\* after each completion when it reuses the batch.
SubmitAllowed ==
  \/ phase = "idle"
  \/ reuse /\ phase = "finalized" /\ nSubmits < MaxSubmits

\* Bookkeeping of an arm operation on slot i (not program state).
NoteArmed(i) ==
  /\ armed' = armed \cup {i}
  /\ armedOutOfOrder' = (armedOutOfOrder \/ \E j \in armed : j > i)

batchVars == <<kinds, sneaky, max_message_size_, return_tag_, ops, nops,
               fillTrace, pending, phase, status, tag, ret, messages,
               recv_status, destroyed, deserialized, finishTrace,
               statusTrace, lastTagSet, nTagCalls, rawSuccess, tagIn, pre,
               reuse, nSubmits, nSurfaced>>

\* The fields CallOpSendInitialMetadata::SendInitialMetadata leaves.
SetSendInitialMetadata(t, metadata) ==
  [t EXCEPT !.send_ = TRUE,
            !.initial_metadata_count_ = Len(metadata),
            !.initial_metadata_ = FillMetadataArray(metadata)]

SendInitialMetadata(i, metadata) ==
  /\ ArmAllowed
  /\ kinds[i] = "CallOpSendInitialMetadata"
  /\ traits' = [traits EXCEPT ![i] = SetSendInitialMetadata(@, metadata)]
  /\ NoteArmed(i)
  /\ UNCHANGED <<batchVars, context, sendReleased, sendReturned>>

\* CallOpSendMessage::SendMessage: Serialize works on &send_buf_; the
\* trait neither tests its result nor touches send_buf_ itself.
SetSendMessage(t, message, stores) ==
  [t EXCEPT !.send_buf_ = SerializeInto(@, message, stores)]

\* SendMessage(message) on slot i with a codec run that returns ok and
\* stores a buffer or not; the call returns what Serialize returned.
SendMessage(i, message, ok, stores) ==
  /\ ArmAllowed
  /\ kinds[i] = "CallOpSendMessage"
  /\ ok => stores
  /\ traits' = [traits EXCEPT ![i] = SetSendMessage(@, message, stores)]
  /\ IF ok THEN NoteArmed(i)
           ELSE UNCHANGED <<armed, armedOutOfOrder>>
  /\ sendReleased' = IF stores THEN [sendReleased EXCEPT ![i] = 0]
                     ELSE sendReleased
  /\ sendReturned' = Ptr(ok)
  /\ UNCHANGED <<batchVars, context>>

\* CallOpRecvMessage<R>::RecvMessage(message): message is &messages[i].
SetRecvMessage(t, message) == [t EXCEPT !.message_ = message]

RecvMessage(i) ==
  /\ ArmAllowed
  /\ kinds[i] = "CallOpRecvMessage"
  /\ traits' = [traits EXCEPT ![i] = SetRecvMessage(@, Ptr(i))]
  /\ NoteArmed(i)
  /\ UNCHANGED <<batchVars, context, sendReleased, sendReturned>>

\* CallOpGenericRecvMessage::RecvMessage(message): deserialize_ becomes a
\* closure that captures message, whatever message is; an empty
\* deserialize_ is NULL.
SetGenericRecvMessage(t, message) == [t EXCEPT !.deserialize_ = Ptr(message)]

GenericRecvMessage(i) ==
  /\ ArmAllowed
  /\ kinds[i] = "CallOpGenericRecvMessage"
  /\ traits' = [traits EXCEPT ![i] = SetGenericRecvMessage(@, Ptr(i))]
  /\ NoteArmed(i)
  /\ UNCHANGED <<batchVars, context, sendReleased, sendReturned>>

SetClientSendClose(t) == [t EXCEPT !.send_ = TRUE]

ClientSendClose(i) ==
  /\ ArmAllowed
  /\ kinds[i] = "CallOpClientSendClose"
  /\ traits' = [traits EXCEPT ![i] = SetClientSendClose(@)]
  /\ NoteArmed(i)
  /\ UNCHANGED <<batchVars, context, sendReleased, sendReturned>>

SetServerSendStatus(t, trailing_metadata, st) ==
  [t EXCEPT !.trailing_metadata_count_ = Len(trailing_metadata),
            !.trailing_metadata_ = FillMetadataArray(trailing_metadata),
            !.send_status_available_ = TRUE,
            !.send_status_code_ = st.code,
            !.send_status_details_ = st.details]

ServerSendStatus(i, trailing_metadata, st) ==
  /\ ArmAllowed
  /\ kinds[i] = "CallOpServerSendStatus"
  /\ traits' = [traits EXCEPT ![i] = SetServerSendStatus(@, trailing_metadata, st)]
  /\ NoteArmed(i)
  /\ UNCHANGED <<batchVars, context, sendReleased, sendReturned>>

\* CallOpRecvInitialMetadata::RecvInitialMetadata(context)
SetRecvInitialMetadata(t) ==
  [t EXCEPT !.recv_initial_metadata_ = Ptr("recv_initial_metadata_")]

RecvInitialMetadata(i) ==
  /\ ArmAllowed
  /\ kinds[i] = "CallOpRecvInitialMetadata"
  /\ context' = [context EXCEPT !.initial_metadata_received_ = TRUE]
  /\ traits' = [traits EXCEPT ![i] = SetRecvInitialMetadata(@)]
  /\ NoteArmed(i)
  /\ UNCHANGED <<batchVars, sendReleased, sendReturned>>

\* CallOpClientRecvStatus::ClientRecvStatus(context, status): status is
\* &recv_status[i].
SetClientRecvStatus(t, st) ==
  [t EXCEPT !.recv_trailing_metadata_ = Ptr("trailing_metadata_"),
            !.recv_status_ = st]

ClientRecvStatus(i) ==
  /\ ArmAllowed
  /\ kinds[i] = "CallOpClientRecvStatus"
  /\ traits' = [traits EXCEPT ![i] = SetClientRecvStatus(@, Ptr(i))]
  /\ NoteArmed(i)
  /\ UNCHANGED <<batchVars, context, sendReleased, sendReturned>>

\* A set_output_tag that keeps an earlier override.
SetOutputTagKeepFirst(old, return_tag) ==
  IF old = Self THEN return_tag ELSE old

\* CallOpSet::set_output_tag(return_tag)
SetOutputTag(old, return_tag) == return_tag

set_output_tag(return_tag) ==
  /\ ArmAllowed
  /\ nTagCalls < MaxTagCalls
  /\ return_tag_' = SetOutputTag(return_tag_, return_tag)
  /\ lastTagSet' = Ptr(return_tag)
  /\ nTagCalls' = nTagCalls + 1
  /\ UNCHANGED <<kinds, sneaky, traits, max_message_size_, ops, nops,
                 fillTrace, pending, phase, status, tag, ret, messages,
                 recv_status, context, destroyed, deserialized, finishTrace,
                 statusTrace, armed, armedOutOfOrder, rawSuccess,
                 tagIn, pre, reuse, nSubmits, nSurfaced, sendReleased,
                 sendReturned>>

\* ------------------------------------------------------------------- AddOp
\* f is the array being filled: [ops, nops, trace].
\* ops[(*nops)++] = op, contributed by slot i.
PutOp(f, i, op) ==
  [ops |-> Append(f.ops, op), nops |-> f.nops + 1, trace |-> Append(f.trace, i)]

AddOpSendInitialMetadata(t, i, f) ==
  IF ~t.send_ THEN f
  ELSE PutOp(f, i, [op |-> "GRPC_OP_SEND_INITIAL_METADATA",
                    count |-> t.initial_metadata_count_,
                    metadata |-> t.initial_metadata_])

AddOpSendMessage(t, i, f) ==
  IF t.send_buf_ = NULL THEN f
  ELSE PutOp(f, i, [op |-> "GRPC_OP_SEND_MESSAGE", send_message |-> t.send_buf_])

AddOpRecvMessage(t, i, f) ==
  IF t.message_ = NULL THEN f
  ELSE PutOp(f, i, [op |-> "GRPC_OP_RECV_MESSAGE", recv_message |-> Ptr(i)])

AddOpGenericRecvMessage(t, i, f) ==
  IF t.deserialize_ = NULL THEN f
  ELSE PutOp(f, i, [op |-> "GRPC_OP_RECV_MESSAGE", recv_message |-> Ptr(i)])

AddOpClientSendClose(t, i, f) ==
  IF ~t.send_ THEN f
  ELSE PutOp(f, i, [op |-> "GRPC_OP_SEND_CLOSE_FROM_CLIENT"])

\* No test of send_status_available_: the op is appended unconditionally.
AddOpServerSendStatus(t, i, f) ==
  PutOp(f, i, [op |-> "GRPC_OP_SEND_STATUS_FROM_SERVER",
               trailing_metadata_count |-> t.trailing_metadata_count_,
               trailing_metadata |-> t.trailing_metadata_,
               status |-> t.send_status_code_,
               status_details |->
                 IF t.send_status_details_ = "" THEN NULL
                 ELSE Ptr(t.send_status_details_)])

AddOpRecvInitialMetadata(t, i, f) ==
  IF t.recv_initial_metadata_ = NULL THEN f
  ELSE PutOp(f, i, [op |-> "GRPC_OP_RECV_INITIAL_METADATA",
                    recv_initial_metadata |-> Ptr(i)])

AddOpClientRecvStatus(t, i, f) ==
  IF t.recv_status_ = NULL THEN f
  ELSE PutOp(f, i, [op |-> "GRPC_OP_RECV_STATUS_ON_CLIENT",
                    trailing_metadata |-> Ptr(i), status |-> Ptr(i),
                    status_details |-> Ptr(i)])

\* WrapAndDerive<Op_i, i>::AddOp(ops, nops) on the traits ts.
AddOp(ts, i, f) ==
  LET t == ts[i] IN
  CASE t.kind = "CallNoOp" -> f
    [] t.kind = "CallOpSendInitialMetadata" -> AddOpSendInitialMetadata(t, i, f)
    [] t.kind = "CallOpSendMessage" -> AddOpSendMessage(t, i, f)
    [] t.kind = "CallOpRecvMessage" -> AddOpRecvMessage(t, i, f)
    [] t.kind = "CallOpGenericRecvMessage" -> AddOpGenericRecvMessage(t, i, f)
    [] t.kind = "CallOpClientSendClose" -> AddOpClientSendClose(t, i, f)
    [] t.kind = "CallOpServerSendStatus" -> AddOpServerSendStatus(t, i, f)
    [] t.kind = "CallOpRecvInitialMetadata" -> AddOpRecvInitialMetadata(t, i, f)
    [] t.kind = "CallOpClientRecvStatus" -> AddOpClientRecvStatus(t, i, f)

\* The place of a trait kind in the order send-initial-metadata,
\* send-message, recv-message, send-close or send-status,
\* recv-initial-metadata, recv-status-on-client.
KindRank(kind) ==
  CASE kind = "CallOpSendInitialMetadata" -> 1
    [] kind = "CallOpSendMessage" -> 2
    [] kind \in RecvKinds -> 3
    [] kind \in {"CallOpClientSendClose", "CallOpServerSendStatus"} -> 4
    [] kind = "CallOpRecvInitialMetadata" -> 5
    [] kind = "CallOpClientRecvStatus" -> 6
    [] OTHER -> 0

\* A FillOps that sorts the ops by trait kind instead of by slot.
AddOpOfRank(ts, i, r, f) == IF KindRank(ts[i].kind) = r THEN AddOp(ts, i, f) ELSE f
AddOpsOfRank(ts, r, f) ==
  AddOpOfRank(ts, 6, r, AddOpOfRank(ts, 5, r, AddOpOfRank(ts, 4, r,
    AddOpOfRank(ts, 3, r, AddOpOfRank(ts, 2, r, AddOpOfRank(ts, 1, r, f))))))
FillOpsByKind(ts, f) ==
  AddOpsOfRank(ts, 6, AddOpsOfRank(ts, 5, AddOpsOfRank(ts, 4,
    AddOpsOfRank(ts, 3, AddOpsOfRank(ts, 2, AddOpsOfRank(ts, 1, f))))))

\* A FillOps that walks the slots from the last to the first.
FillOpsReversed(ts, f) ==
  AddOp(ts, 1, AddOp(ts, 2, AddOp(ts, 3, AddOp(ts, 4, AddOp(ts, 5, AddOp(ts, 6, f))))))

\* CallOpSet::FillOps(ops, nops)
FillOps(ts, f) ==
  AddOp(ts, 6, AddOp(ts, 5, AddOp(ts, 4, AddOp(ts, 3, AddOp(ts, 2, AddOp(ts, 1, f))))))

\* Ops whose results the native core writes back into the trait.
RecvOps == {"GRPC_OP_RECV_MESSAGE", "GRPC_OP_RECV_INITIAL_METADATA",
            "GRPC_OP_RECV_STATUS_ON_CLIENT"}

\* Call::PerformOps(ops): set_max_message_size(call_max) hands the call's size
\* bound to the batch, the hook fills the native array from an empty one
\* with FillOps and starts the batch.
PerformOps(call_max) ==
  /\ SubmitAllowed
  /\ LET f == FillOps(traits, [ops |-> <<>>, nops |-> 0, trace |-> <<>>]) IN
       /\ ops' = f.ops
       /\ nops' = f.nops
       /\ fillTrace' = f.trace
       /\ pending' = {f.trace[k] : k \in {j \in 1..Len(f.trace) : f.ops[j].op \in RecvOps}}
  /\ max_message_size_' = call_max
  /\ phase' = "submitted"
  /\ nSubmits' = nSubmits + 1
  /\ UNCHANGED <<kinds, sneaky, traits, return_tag_, status, tag, ret,
                 messages, recv_status, context, destroyed, deserialized,
                 finishTrace, statusTrace, armed, armedOutOfOrder,
                 lastTagSet, nTagCalls, rawSuccess, tagIn, pre, reuse,
                 nSurfaced, sendReleased, sendReturned>>

\* ------------------------------------------------------------- native core
\* The core completes the receive op of slot i: it stores the result through
\* the pointers the op carries.
deliverVars == <<kinds, sneaky, max_message_size_, return_tag_, ops, nops,
                 fillTrace, phase, status, tag, ret, messages, recv_status,
                 context, destroyed, deserialized, finishTrace, statusTrace,
                 armed, armedOutOfOrder, lastTagSet, nTagCalls,
                 rawSuccess, tagIn, pre, reuse, nSubmits, nSurfaced,
                 sendReleased, sendReturned>>

DeliverMessage(i, buf) ==
  /\ phase = "submitted" /\ i \in pending
  /\ kinds[i] \in RecvKinds
  /\ traits' = [traits EXCEPT ![i].recv_buf_ = buf]
  /\ pending' = pending \ {i}
  /\ UNCHANGED deliverVars

DeliverInitialMetadata(i, md) ==
  /\ phase = "submitted" /\ i \in pending
  /\ kinds[i] = "CallOpRecvInitialMetadata"
  /\ traits' = [traits EXCEPT ![i].recv_initial_metadata_arr_ = md]
  /\ pending' = pending \ {i}
  /\ UNCHANGED deliverVars

DeliverStatus(i, md, code, details) ==
  /\ phase = "submitted" /\ i \in pending
  /\ kinds[i] = "CallOpClientRecvStatus"
  /\ traits' = [traits EXCEPT ![i].recv_trailing_metadata_arr_ = md,
                              ![i].status_code_ = code,
                              ![i].status_details_ = details]
  /\ pending' = pending \ {i}
  /\ UNCHANGED deliverVars

\* ---------------------------------------------------------------- FinishOp
\* m is the memory FinalizeResult works on: the traits, *status, *tag, the
\* caller-owned destinations, and what has been done to buffers so far.
\* m.fatal: a write through a null pointer ended the process.

\* grpc_byte_buffer_destroy(buf) called for slot i; a null buffer is
\* ignored, a pointer that is no buffer ends the process.
ByteBufferDestroy(m, i, buf) ==
  IF buf = NULL THEN m
  ELSE IF buf = UnsetBuf THEN [m EXCEPT !.fatal = TRUE]
  ELSE [m EXCEPT !.destroyed[i] = @ + 1]

\* Deserialize(buf, message, max_message_size) called for slot i: the message
\* is written when the buffer parses within the bound.  Reading a pointer
\* that is no buffer, or writing the message through a null destination,
\* ends the process.
Deserialize(m, i, buf, message) ==
  LET ok == DeserializeIsOk(Deref(buf), m.max_message_size_) IN
  IF buf = UnsetBuf \/ (ok /\ message = NULL) THEN [m EXCEPT !.fatal = TRUE]
  ELSE IF message = NULL THEN [m EXCEPT !.deserialized[i] = @ + 1, !.status = ok]
  ELSE [m EXCEPT !.deserialized[i] = @ + 1,
                 !.messages[Deref(message)] = IF ok THEN Deref(buf).payload ELSE @,
                 !.status = ok]

\* FillMetadataMap(&arr, metadata) with metadata pointing at a field of the
\* ClientContext: entries move from the native array into the map.
FinishFillMetadataMap(m, i, arrField, metadata) ==
  LET arr == m.traits[i][arrField] IN
  IF arr = NoMetadata THEN m
  ELSE IF metadata = NULL THEN [m EXCEPT !.fatal = TRUE]
  ELSE [m EXCEPT !.context[Deref(metadata)] = FillMetadataMap(arr, @),
                 !.traits[i][arrField] = NoMetadata]

FinishOpSendInitialMetadata(m, i) == m

FinishOpSendMessage(m, i) == ByteBufferDestroy(m, i, m.traits[i].send_buf_)

\* A FinishOp that forgets to destroy the buffer of a failed batch.
FinishOpRecvMessageNoDestroy(m, i) ==
  LET t == m.traits[i] IN
  IF t.message_ = NULL THEN m
  ELSE IF t.recv_buf_ /= NULL
       THEN IF m.status
            THEN Deserialize([m EXCEPT !.traits[i].got_message = TRUE],
                             i, t.recv_buf_, t.message_)
            ELSE [m EXCEPT !.traits[i].got_message = FALSE]
       ELSE [m EXCEPT !.traits[i].got_message = FALSE, !.status = FALSE]

\* A FinishOp that accepts a completion without a buffer.
FinishOpRecvMessageNoBufferOk(m, i) ==
  LET t == m.traits[i] IN
  IF t.message_ = NULL THEN m
  ELSE IF t.recv_buf_ /= NULL
       THEN IF m.status
            THEN Deserialize([m EXCEPT !.traits[i].got_message = TRUE],
                             i, t.recv_buf_, t.message_)
            ELSE ByteBufferDestroy([m EXCEPT !.traits[i].got_message = FALSE],
                                   i, t.recv_buf_)
       ELSE [m EXCEPT !.traits[i].got_message = FALSE]

\* A FinishOp that deserializes without looking at *status.
FinishOpRecvMessageAlwaysDeserialize(m, i) ==
  LET t == m.traits[i] IN
  IF t.message_ = NULL THEN m
  ELSE IF t.recv_buf_ /= NULL
       THEN Deserialize([m EXCEPT !.traits[i].got_message = TRUE],
                        i, t.recv_buf_, t.message_)
       ELSE [m EXCEPT !.traits[i].got_message = FALSE, !.status = FALSE]

FinishOpRecvMessage(m, i) ==
  LET t == m.traits[i] IN
  IF t.message_ = NULL THEN m
  ELSE IF t.recv_buf_ /= NULL
       THEN IF m.status
            THEN Deserialize([m EXCEPT !.traits[i].got_message = TRUE],
                             i, t.recv_buf_, t.message_)
            ELSE ByteBufferDestroy([m EXCEPT !.traits[i].got_message = FALSE],
                                   i, t.recv_buf_)
       ELSE [m EXCEPT !.traits[i].got_message = FALSE, !.status = FALSE]

\* A type-erased FinishOp that leaves the buffer of a failed batch alone.
FinishOpGenericRecvMessageNoDestroy(m, i) ==
  LET t == m.traits[i] IN
  IF t.deserialize_ = NULL THEN m
  ELSE IF t.recv_buf_ /= NULL
       THEN IF m.status
            THEN Deserialize([m EXCEPT !.traits[i].got_message = TRUE],
                             i, t.recv_buf_, Deref(t.deserialize_))
            ELSE [m EXCEPT !.traits[i].got_message = FALSE]
       ELSE [m EXCEPT !.traits[i].got_message = FALSE, !.status = FALSE]

\* A FinishOp that drops the result of the deserialization.
FinishOpGenericRecvMessageKeepStatus(m, i) ==
  LET t == m.traits[i] IN
  IF t.deserialize_ = NULL THEN m
  ELSE IF t.recv_buf_ /= NULL
       THEN IF m.status
            THEN [Deserialize([m EXCEPT !.traits[i].got_message = TRUE],
                              i, t.recv_buf_, Deref(t.deserialize_))
                    EXCEPT !.status = m.status]
            ELSE ByteBufferDestroy([m EXCEPT !.traits[i].got_message = FALSE],
                                   i, t.recv_buf_)
       ELSE [m EXCEPT !.traits[i].got_message = FALSE, !.status = FALSE]

FinishOpGenericRecvMessage(m, i) ==
  LET t == m.traits[i] IN
  IF t.deserialize_ = NULL THEN m
  ELSE IF t.recv_buf_ /= NULL
       THEN IF m.status
            THEN Deserialize([m EXCEPT !.traits[i].got_message = TRUE],
                             i, t.recv_buf_, Deref(t.deserialize_))
            ELSE ByteBufferDestroy([m EXCEPT !.traits[i].got_message = FALSE],
                                   i, t.recv_buf_)
       ELSE [m EXCEPT !.traits[i].got_message = FALSE, !.status = FALSE]

FinishOpClientSendClose(m, i) == m

FinishOpServerSendStatus(m, i) == m

FinishOpRecvInitialMetadata(m, i) ==
  FinishFillMetadataMap(m, i, "recv_initial_metadata_arr_",
                        m.traits[i].recv_initial_metadata_)

\* A FinishOp that delivers the status of successful batches only.
FinishOpClientRecvStatusOnSuccess(m, i) ==
  LET t == m.traits[i]
      m1 == FinishFillMetadataMap(m, i, "recv_trailing_metadata_arr_",
                                  t.recv_trailing_metadata_)
  IN IF m1.fatal \/ ~m.status THEN m1
     ELSE IF t.recv_status_ = NULL THEN [m1 EXCEPT !.fatal = TRUE]
     ELSE [m1 EXCEPT !.recv_status[Deref(t.recv_status_)] =
             Status(t.status_code_,
                    IF t.status_details_ /= NULL THEN Deref(t.status_details_)
                    ELSE "")]

\* A FinishOp that builds the details string without testing the pointer.
FinishOpClientRecvStatusNoNullTest(m, i) ==
  LET t == m.traits[i]
      m1 == FinishFillMetadataMap(m, i, "recv_trailing_metadata_arr_",
                                  t.recv_trailing_metadata_)
  IN IF m1.fatal THEN m1
     ELSE IF t.recv_status_ = NULL \/ t.status_details_ = NULL
          THEN [m1 EXCEPT !.fatal = TRUE]
     ELSE [m1 EXCEPT !.recv_status[Deref(t.recv_status_)] =
             Status(t.status_code_, Deref(t.status_details_))]

\* *recv_status_ = Status(code, details or the empty string): no test of
\* recv_status_.
FinishOpClientRecvStatus(m, i) ==
  LET t == m.traits[i]
      m1 == FinishFillMetadataMap(m, i, "recv_trailing_metadata_arr_",
                                  t.recv_trailing_metadata_)
  IN IF m1.fatal THEN m1
     ELSE IF t.recv_status_ = NULL THEN [m1 EXCEPT !.fatal = TRUE]
     ELSE [m1 EXCEPT !.recv_status[Deref(t.recv_status_)] =
             Status(t.status_code_,
                    IF t.status_details_ /= NULL THEN Deref(t.status_details_)
                    ELSE "")]

\* The FinishOp of slot i's trait.
TraitFinishOp(m, i) ==
  LET k == m.traits[i].kind IN
  CASE k = "CallNoOp" -> m
    [] k = "CallOpSendInitialMetadata" -> FinishOpSendInitialMetadata(m, i)
    [] k = "CallOpSendMessage" -> FinishOpSendMessage(m, i)
    [] k = "CallOpRecvMessage" -> FinishOpRecvMessage(m, i)
    [] k = "CallOpGenericRecvMessage" -> FinishOpGenericRecvMessage(m, i)
    [] k = "CallOpClientSendClose" -> FinishOpClientSendClose(m, i)
    [] k = "CallOpServerSendStatus" -> FinishOpServerSendStatus(m, i)
    [] k = "CallOpRecvInitialMetadata" -> FinishOpRecvInitialMetadata(m, i)
    [] k = "CallOpClientRecvStatus" -> FinishOpClientRecvStatus(m, i)

\* WrapAndDerive<Op_i, i>::FinishOp(*tag, status, max_message_size_); nothing
\* runs once the process has died.
FinishOp(m, i) ==
  IF m.fatal THEN m
  ELSE LET r == TraitFinishOp(m, i) IN
       [r EXCEPT !.finishTrace = Append(@, i),
                 !.statusTrace = Append(@, r.status)]

\* CallOpSet::FinalizeResult(tag, status)
CallOpSetFinalizeResult(m) ==
  LET r == FinishOp(FinishOp(FinishOp(FinishOp(FinishOp(FinishOp(m, 1), 2), 3), 4), 5), 6)
  IN IF r.fatal THEN r
     ELSE [r EXCEPT !.tag = r.return_tag_, !.ret = TRUE]

\* A FinalizeResult written as false && CallOpSet::FinalizeResult(...): the
\* inherited logic never runs.
SneakyShortCircuit(m) == [m EXCEPT !.ret = FALSE]

\* SneakyCallOpSet::FinalizeResult(tag, status)
SneakyCallOpSetFinalizeResult(m) ==
  LET r == CallOpSetFinalizeResult(m) IN [r EXCEPT !.ret = (r.ret /\ FALSE)]

\* The memory as the completion queue hands it to FinalizeResult.
Memory(raw, tin) ==
  [traits |-> traits, max_message_size_ |-> max_message_size_,
   return_tag_ |-> return_tag_, status |-> raw, tag |-> tin, ret |-> FALSE,
   messages |-> messages, recv_status |-> recv_status, context |-> context,
   destroyed |-> destroyed, deserialized |-> deserialized,
   finishTrace |-> <<>>, statusTrace |-> <<raw>>, fatal |-> FALSE]

\* An armed receive-message trait whose recv_buf_ was never assigned: its
\* FinishOp reads an indeterminate pointer.
ReadsUnset(t) ==
  /\ t.kind \in RecvKinds
  /\ t.recv_buf_ = UnsetBuf
  /\ \/ t.kind = "CallOpRecvMessage" /\ t.message_ /= NULL
     \/ t.kind = "CallOpGenericRecvMessage" /\ t.deserialize_ /= NULL

\* The values such a read can yield: null, a pointer to a buffer, or a
\* pointer that is no buffer (UnsetBuf).  Each trait reads its own word: one
\* value per slot that makes the read (a slot that does not make it plays
\* no part).
WildPtrs == BufPtrs \cup {UnsetBuf}
ReadSlots == {i \in Slots : ReadsUnset(traits[i])}
WildReads ==
  {[i \in Slots |-> IF i \in ReadSlots THEN w[i] ELSE NULL] :
     w \in [ReadSlots -> WildPtrs]}

\* What FinishOp reads: the never-assigned recv_buf_ of an armed
\* receive-message trait in slot i yields the indeterminate pointer value
\* wild[i].
Settle(m, wild) ==
  [m EXCEPT !.traits =
     [i \in Slots |->
        IF ReadsUnset(m.traits[i])
          THEN [m.traits[i] EXCEPT !.recv_buf_ = wild[i]]
          ELSE m.traits[i]]]

\* The completion queue pops the batch's event (tin, raw) once the core has
\* completed every op and calls the batch's virtual FinalizeResult.
FinalizeResult(raw, tin) ==
  /\ phase = "submitted" /\ pending = {}
  /\ \E wild \in WildReads :
     \E m \in {Settle(Memory(raw, tin), wild)} :
     \E r \in {IF sneaky THEN SneakyCallOpSetFinalizeResult(m)
                        ELSE CallOpSetFinalizeResult(m)} :
        /\ traits' = r.traits
        /\ status' = r.status
        /\ tag' = r.tag
        /\ ret' = r.ret
        /\ messages' = r.messages
        /\ recv_status' = r.recv_status
        /\ context' = r.context
        /\ destroyed' = r.destroyed
        /\ deserialized' = r.deserialized
        /\ finishTrace' = r.finishTrace
        /\ statusTrace' = r.statusTrace
        /\ phase' = IF r.fatal THEN "fatal" ELSE "finalized"
        /\ pre' = Ptr(m)
        /\ nSurfaced' = IF r.ret THEN nSurfaced + 1 ELSE nSurfaced
        /\ sendReleased' =
             [i \in Slots |->
                IF kinds[i] = "CallOpSendMessage"
                  THEN sendReleased[i] + (r.destroyed[i] - destroyed[i])
                  ELSE sendReleased[i]]
  /\ rawSuccess' = raw
  /\ tagIn' = tin
  /\ UNCHANGED <<kinds, sneaky, max_message_size_, return_tag_, ops, nops,
                 fillTrace, pending, armed, armedOutOfOrder,
                 lastTagSet, nTagCalls, reuse, nSubmits, sendReturned>>

\* ------------------------------------------------------------ specification
Arm ==
  \E i \in Slots :
    \/ \E md \in MetadataMaps : SendInitialMetadata(i, md)
    \/ \E ok, stores \in BOOLEAN : SendMessage(i, "m1", ok, stores)
    \/ RecvMessage(i)
    \/ GenericRecvMessage(i)
    \/ ClientSendClose(i)
    \/ \E s \in SentStatuses : ServerSendStatus(i, s.md, s.st)
    \/ RecvInitialMetadata(i)
    \/ ClientRecvStatus(i)

Deliver ==
  \E i \in Slots :
    \/ \E buf \in BufPtrs : DeliverMessage(i, buf)
    \/ \E md \in MetadataArrays : DeliverInitialMetadata(i, md)
    \/ \E s \in NativeStatuses : DeliverStatus(i, s.md, s.code, s.details)

Submit == \E call_max \in {0, MaxMsgSize - 1} : PerformOps(call_max)

\* The queue hands FinalizeResult the tag the batch was started with, the
\* batch's own address.
Complete == \E raw \in BOOLEAN : FinalizeResult(raw, Self)

\* Batches that keep their default return tag.
Next ==
  \/ Arm
  \/ Submit
  \/ Deliver
  \/ Complete

Spec == Init /\ [][Next]_vars

\* Batches of at most TagTraits traits whose return tag is set before they
\* are submitted, finalized with any tag passed in.
InitTag == Init /\ \A i \in Slots : i > TagTraits => kinds[i] = "CallNoOp"

SetTag == \E t \in Tags : set_output_tag(t)

CompleteTag == \E raw \in BOOLEAN, tin \in Tags : FinalizeResult(raw, tin)

NextTag ==
  \/ Arm
  \/ SetTag
  \/ Submit
  \/ Deliver
  \/ CompleteTag

SpecTag == InitTag /\ [][NextTag]_vars

\* A batch of ReuseTraits traits whose caller keeps calling it: arm
\* operations at any time, PerformOps again after each completion.
InitReuse ==
  /\ InitBatch /\ reuse = TRUE
  /\ \A i \in Slots : i > ReuseTraits => kinds[i] = "CallNoOp"

SpecReuse == InitReuse /\ [][Next]_vars

\* ------------------------------------------------------------------ claims
Finalized == phase = "finalized"
\* The memory FinalizeResult was entered with.
Pre == Deref(pre)
IsRecv(i) == kinds[i] \in RecvKinds
\* The byte buffer the core delivered to slot i's receive op (NULL: none).
Delivered(i) == Pre.traits[i].recv_buf_
Range(seq) == {seq[k] : k \in 1..Len(seq)}
Increasing(seq) == \A a, b \in 1..Len(seq) : a < b => seq[a] < seq[b]

\* C1: FillOps raises *nops by exactly the number of armed traits, for every
\* batch composition, CallOpServerSendStatus included: one op per armed
\* trait, none for a trait that was never armed.
C1_NopsEqualsArmed ==
  phase /= "idle" => nops = Cardinality(armed) /\ Range(fillTrace) = armed

\* C2: FillOps places the ops of the armed traits in slot order 1..6 and
\* FinalizeResult runs the FinishOp steps in slot order 1..6, whatever the
\* order the traits were armed in.
C2_SlotOrder ==
  /\ phase /= "idle" =>
       /\ Increasing(fillTrace)
       /\ armed \subseteq Range(fillTrace)
       /\ Len(ops) = Len(fillTrace) /\ nops = Len(ops)
  /\ Finalized => finishTrace = <<1, 2, 3, 4, 5, 6>>
  /\ phase = "fatal" => finishTrace = [k \in 1..Len(finishTrace) |-> k]

C2_Witness ==
  /\ Finalized /\ armedOutOfOrder /\ Cardinality(armed) = 2
  /\ fillTrace = <<1, 2>> /\ finishTrace = <<1, 2, 3, 4, 5, 6>>

\* The success of an armed trait on its own: a receive-message trait
\* succeeds when a buffer was delivered and it deserializes within the
\* bound; every other trait succeeds.
TraitSuccess(i) ==
  IsRecv(i) =>
    /\ Delivered(i) /= NULL
    /\ DeserializeIsOk(Deref(Delivered(i)), max_message_size_)

\* C3: after FinalizeResult the success flag is the AND of rawSuccess and
\* the success of every armed trait; a trait never armed leaves the flag as
\* it found it.
C3_SuccessIsAnd ==
  Finalized =>
    /\ status = (rawSuccess /\ \A i \in armed : TraitSuccess(i))
    /\ \A i \in Slots \ armed : statusTrace[i + 1] = statusTrace[i]

C3_Witness ==
  /\ Finalized /\ rawSuccess /\ ~status /\ Cardinality(armed) = 2
  /\ \E i, j \in armed : i /= j /\ TraitSuccess(i) /\ ~TraitSuccess(j)

\* C4: an armed receive-message trait finalized with rawSuccess = true and a
\* delivered buffer whose deserialization fails ends with got_message false
\* and the success flag false.
C4_FailedDeserialize ==
  Finalized /\ rawSuccess =>
    \A i \in armed :
      (IsRecv(i) /\ deserialized[i] = 1 /\ Delivered(i) /= NULL
         /\ ~DeserializeIsOk(Deref(Delivered(i)), max_message_size_))
      => (~traits[i].got_message /\ ~status)

\* C5: SneakyCallOpSet::FinalizeResult returns false, also when every trait
\* succeeds, and leaves everything else as CallOpSet::FinalizeResult does:
\* the same FinishOp steps in the same order, the same success flag,
\* got_message, destinations and output tag.
C5_SneakySameEffects ==
  (sneaky /\ phase \in {"finalized", "fatal"}) =>
    LET r == CallOpSetFinalizeResult(Pre) IN
      /\ traits = r.traits
      /\ status = r.status
      /\ tag = r.tag
      /\ messages = r.messages
      /\ recv_status = r.recv_status
      /\ context = r.context
      /\ destroyed = r.destroyed
      /\ deserialized = r.deserialized
      /\ finishTrace = r.finishTrace
      /\ statusTrace = r.statusTrace
      /\ (phase = "fatal") = r.fatal
      /\ Finalized => (ret = FALSE /\ r.ret = TRUE)

C5_Witness ==
  /\ sneaky /\ Finalized /\ ret = FALSE /\ status /\ tag = Self
  /\ \E i \in armed : IsRecv(i) /\ traits[i].got_message /\ messages[i] = "m1"

\* C6: whenever ClientRecvStatus is armed, FinalizeResult writes the Status
\* built from the native code and detail string (the empty string when the
\* detail pointer is absent) into the caller's destination and fills the
\* trailing-metadata destination, for rawSuccess true and false alike, and
\* the step leaves the success flag alone; native OK without detail gives
\* (OK, "").
C6_StatusDelivered ==
  Finalized =>
    \A i \in armed :
      kinds[i] = "CallOpClientRecvStatus" =>
        LET t == Pre.traits[i] IN
          /\ recv_status[i].code = t.status_code_
          /\ recv_status[i].details =
               (IF t.status_details_ = NULL THEN "" ELSE Deref(t.status_details_))
          /\ \A k \in 1..Len(t.recv_trailing_metadata_arr_) :
               <<t.recv_trailing_metadata_arr_[k].key,
                 t.recv_trailing_metadata_arr_[k].value>>
                 \in Range(context.trailing_metadata_)
          /\ statusTrace[i + 1] = statusTrace[i]
          /\ (t.status_code_ = 0 /\ t.status_details_ = NULL)
               => recv_status[i] = Status(0, "")

C6_Witness ==
  /\ Finalized /\ ~rawSuccess
  /\ \E i \in armed :
       /\ kinds[i] = "CallOpClientRecvStatus"
       /\ recv_status[i] = Status(0, "")
       /\ Pre.traits[i].status_details_ = NULL
  /\ \E j \in armed :
       /\ kinds[j] = "CallOpClientRecvStatus"
       /\ recv_status[j] = Status(2, "err")
       /\ context.trailing_metadata_ /= <<>>

\* C7: an armed receive-message trait finalized with rawSuccess = false and
\* a delivered buffer: no deserialization, the buffer released exactly once,
\* got_message false, the destination untouched, success still false.
C7_FailedTransport ==
  Finalized /\ ~rawSuccess =>
    \A i \in armed :
      (IsRecv(i) /\ Delivered(i) /= NULL) =>
        /\ deserialized[i] = 0
        /\ destroyed[i] = 1
        /\ ~traits[i].got_message
        /\ messages[i] = Pre.messages[i]
        /\ ~status

C7_Witness ==
  /\ Finalized /\ ~rawSuccess
  /\ \E i \in armed :
       /\ IsRecv(i) /\ Delivered(i) /= NULL
       /\ DeserializeIsOk(Deref(Delivered(i)), max_message_size_)
       /\ destroyed[i] = 1 /\ messages[i] = "m0"

\* C8: an armed receive-message trait finalized with rawSuccess = true and
\* no delivered buffer: success false, got_message false, the destination
\* untouched.
C8_NoBuffer ==
  Finalized /\ rawSuccess =>
    \A i \in armed :
      (IsRecv(i) /\ Delivered(i) = NULL) =>
        /\ ~status
        /\ ~traits[i].got_message
        /\ messages[i] = Pre.messages[i]
        /\ deserialized[i] = 0

C8_Witness ==
  /\ Finalized /\ rawSuccess /\ ~status
  /\ \E i \in armed : IsRecv(i) /\ Delivered(i) = NULL /\ messages[i] = "m0"

\* C9: the success flag is monotone during finalize: false before a
\* FinishOp, false after it; FinalizeResult entered with rawSuccess = false
\* ends with success false.
C9_Monotone ==
  /\ \A k \in 1..(Len(statusTrace) - 1) :
       ~statusTrace[k] => ~statusTrace[k + 1]
  /\ phase \in {"finalized", "fatal"} => statusTrace[1] = rawSuccess
  /\ (Finalized /\ ~rawSuccess) => ~status

C9_Witness ==
  /\ Finalized /\ ~rawSuccess /\ ~status /\ Len(statusTrace) = NumSlots + 1
  /\ \E i \in armed :
       /\ IsRecv(i) /\ Delivered(i) /= NULL
       /\ DeserializeIsOk(Deref(Delivered(i)), max_message_size_)

\* The return tag the batch was configured with.
ConfiguredTag == IF lastTagSet = NULL THEN Self ELSE Deref(lastTagSet)

\* C10 as stated: FinalizeResult of a non-silent batch returns true and
\* sets the output tag to the configured return tag (the batch's own
\* identity when set_output_tag was never called, else the argument of the
\* latest call), and the tag value the completion queue passed in is never
\* returned.
C10_NeverPassedInTag ==
  (Finalized /\ ~sneaky) =>
    (ret = TRUE /\ tag = ConfiguredTag /\ tag /= tagIn)

\* C10, amended: FinalizeResult of a non-silent batch returns true and sets
\* the output tag to the configured return tag: the batch's own identity
\* when set_output_tag was never called, else the argument of the latest
\* call.  The output does not depend on the tag the completion queue passed
\* in: the passed-in value is returned only when it equals the configured
\* return tag.
C10_OutputTag ==
  (Finalized /\ ~sneaky) =>
    /\ ret = TRUE
    /\ tag = ConfiguredTag
    /\ (tag = tagIn) <=> (tagIn = ConfiguredTag)

C10_Witness ==
  /\ Finalized /\ ~sneaky /\ ret = TRUE
  /\ nTagCalls = 2 /\ tag = Self /\ tagIn /= tag

\* C11: no finalize step writes through a null destination: for every batch
\* composition and every subset of armed traits, a batch with a
\* CallOpRecvInitialMetadata or CallOpClientRecvStatus slot that was never
\* armed included, FinalizeResult reaches no fatal state.
C11_NoFatal == phase /= "fatal"

\* C12: a batch goes Idle -> Submitted -> Finalized with no transition
\* skipped or repeated: it is submitted once and finalized once, and no
\* trait is armed while the batch is Submitted or Finalized (a step that
\* changes a trait without submitting, completing an op or finalizing is an
\* arm operation).
C12_Lifecycle ==
  [][/\ nSubmits' <= 1
     /\ phase' /= phase =>
          <<phase, phase'>> \in {<<"idle", "submitted">>,
                                 <<"submitted", "finalized">>,
                                 <<"submitted", "fatal">>}
     /\ (traits' /= traits /\ phase' = phase /\ pending' = pending)
          => phase = "idle"]_vars

\* C13: over any sequence of submissions and completion-queue pops, the tag
\* of a batch is surfaced (FinalizeResult returns true with that tag) at
\* most once, and the tag of a silent batch is surfaced zero times.
C13_SurfacedOnce ==
  /\ nSurfaced <= 1
  /\ sneaky => nSurfaced = 0

\* The scratch buffer slot i's trait still holds after FinalizeResult: the
\* metadata array FillMetadataArray built for it, a serialized send buffer
\* nobody destroyed, or a delivered receive buffer that was neither handed
\* to Deserialize nor destroyed.
HoldsScratch(i) ==
  LET t == traits[i] IN
  CASE kinds[i] = "CallOpSendInitialMetadata" ->
         t.send_ /\ t.initial_metadata_ /= NoMetadata
    [] kinds[i] = "CallOpServerSendStatus" ->
         t.send_status_available_ /\ t.trailing_metadata_ /= NoMetadata
    [] kinds[i] = "CallOpSendMessage" ->
         t.send_buf_ /= NULL /\ destroyed[i] = 0
    [] kinds[i] \in RecvKinds ->
         Delivered(i) /= NULL /\ destroyed[i] + deserialized[i] = 0
    [] OTHER -> FALSE

\* C14: once FinalizeResult has run, no armed trait still holds a scratch
\* buffer: the metadata array of SendInitialMetadata, the trailing-metadata
\* array of ServerSendStatus, the serialized send buffer and the delivered
\* receive buffer have each been released or handed on.
C14_ScratchReleased ==
  Finalized => \A i \in armed : ~HoldsScratch(i)

\* The CallOpSendMessage slots on which no SendMessage call succeeded.
UnarmedSend == {i \in Slots : kinds[i] = "CallOpSendMessage" /\ i \notin armed}

\* C15: a SendMessage whose serialization fails returns false and does not
\* arm the trait: a CallOpSendMessage trait on which no SendMessage call
\* succeeded holds no send buffer, and FillOps contributes no send-message
\* op for it; SendMessage returns true only when it armed a trait.
C15_FailedSerialize ==
  /\ \A i \in UnarmedSend : traits[i].send_buf_ = NULL
  /\ phase /= "idle" => UnarmedSend \cap Range(fillTrace) = {}
  /\ sendReturned = Ptr(TRUE) =>
       \E i \in armed : kinds[i] = "CallOpSendMessage"

\* The op code the AddOp of a trait kind writes.
OpOf(kind) ==
  CASE kind = "CallOpSendInitialMetadata" -> "GRPC_OP_SEND_INITIAL_METADATA"
    [] kind = "CallOpSendMessage" -> "GRPC_OP_SEND_MESSAGE"
    [] kind \in RecvKinds -> "GRPC_OP_RECV_MESSAGE"
    [] kind = "CallOpClientSendClose" -> "GRPC_OP_SEND_CLOSE_FROM_CLIENT"
    [] kind = "CallOpServerSendStatus" -> "GRPC_OP_SEND_STATUS_FROM_SERVER"
    [] kind = "CallOpRecvInitialMetadata" -> "GRPC_OP_RECV_INITIAL_METADATA"
    [] kind = "CallOpClientRecvStatus" -> "GRPC_OP_RECV_STATUS_ON_CLIENT"
    [] OTHER -> "none"

\* The op codes of the native array, in array order.
OpCodes == [k \in 1..Len(ops) |-> ops[k].op]
\* The kinds of the traits an arm operation succeeded on.
ArmedKinds == {kinds[i] : i \in armed}
\* The kinds of the slots whose ops are in the native array, in array order.
FilledKinds == [k \in 1..Len(fillTrace) |-> kinds[fillTrace[k]]]
\* The armed slots among them, in array order.
IsArmed(i) == i \in armed
ArmedFilled == SelectSeq(fillTrace, IsArmed)
NonDecreasing(seq) == \A a, b \in 1..Len(seq) : a < b => seq[a] <= seq[b]

\* The batch is CallOpSet<a, b>: the other four slots hold CallNoOp.
TwoTraits(a, b) ==
  /\ kinds[1] = a /\ kinds[2] = b
  /\ \A i \in Slots : i > 2 => kinds[i] = "CallNoOp"

\* C16 as stated: for every batch that can be composed, the native array
\* lists the armed kinds in the fixed kind order send-initial-metadata,
\* send-message, recv-message, send-close or send-status,
\* recv-initial-metadata, recv-status-on-client; a batch armed only with
\* SendMessage and ClientRecvStatus yields exactly
\* [send-message, recv-status-on-client].
C16_KindOrder ==
  phase /= "idle" =>
    /\ NonDecreasing([k \in 1..Len(ArmedFilled) |-> KindRank(kinds[ArmedFilled[k]])])
    /\ (Cardinality(armed) = 2
          /\ ArmedKinds = {"CallOpSendMessage", "CallOpClientRecvStatus"})
       => OpCodes = <<"GRPC_OP_SEND_MESSAGE", "GRPC_OP_RECV_STATUS_ON_CLIENT">>

\* C16, amended: the native array lists the contributed ops in slot order,
\* each with the op code of its slot's trait kind; the kinds follow the
\* fixed kind order whenever the slots hold the kinds in that order.  A
\* batch <CallOpSendMessage, CallOpClientRecvStatus> armed with both yields
\* [send-message, recv-status-on-client]; with the two slots swapped it
\* yields [recv-status-on-client, send-message].
C16_SlotKindOrder ==
  phase /= "idle" =>
    /\ Increasing(fillTrace)
    /\ OpCodes = [k \in 1..Len(FilledKinds) |-> OpOf(FilledKinds[k])]
    /\ NonDecreasing([i \in 1..MaxTraits |-> KindRank(kinds[i])])
         => NonDecreasing([k \in 1..Len(FilledKinds) |-> KindRank(FilledKinds[k])])
    /\ (armed = {1, 2} /\ TwoTraits("CallOpSendMessage", "CallOpClientRecvStatus"))
       => OpCodes = <<"GRPC_OP_SEND_MESSAGE", "GRPC_OP_RECV_STATUS_ON_CLIENT">>
    /\ (armed = {1, 2} /\ TwoTraits("CallOpClientRecvStatus", "CallOpSendMessage"))
       => OpCodes = <<"GRPC_OP_RECV_STATUS_ON_CLIENT", "GRPC_OP_SEND_MESSAGE">>

C16_Witness ==
  /\ phase = "submitted" /\ armed = {1, 2}
  /\ TwoTraits("CallOpClientRecvStatus", "CallOpSendMessage")
  /\ OpCodes = <<"GRPC_OP_RECV_STATUS_ON_CLIENT", "GRPC_OP_SEND_MESSAGE">>

\* The batch with every CallOpRecvMessage<R> trait replaced by a
\* CallOpGenericRecvMessage in the same condition (armed with the same
\* destination or idle, the same got_message, the same buffer), and every
\* CallOpGenericRecvMessage by a CallOpRecvMessage<R>.
TwinTrait(t) ==
  CASE t.kind = "CallOpRecvMessage" ->
         [kind |-> "CallOpGenericRecvMessage", got_message |-> t.got_message,
          deserialize_ |-> IF t.message_ = NULL THEN NULL ELSE Ptr(t.message_),
          recv_buf_ |-> t.recv_buf_]
    [] t.kind = "CallOpGenericRecvMessage" ->
         [kind |-> "CallOpRecvMessage", got_message |-> t.got_message,
          message_ |-> IF t.deserialize_ = NULL THEN NULL ELSE Deref(t.deserialize_),
          recv_buf_ |-> t.recv_buf_]
    [] OTHER -> t
Twin(ts) == [i \in Slots |-> TwinTrait(ts[i])]
EmptyOps == [ops |-> <<>>, nops |-> 0, trace |-> <<>>]

\* C17: CallOpRecvMessage<R> and CallOpGenericRecvMessage are
\* interchangeable: in the same condition both contribute the same ops to
\* FillOps, and FinalizeResult on the same delivered buffer, rawSuccess and
\* decoder outcome leaves the same got_message, success flag, destroy and
\* Deserialize calls and destination contents.
C17_TypedEqualsGeneric ==
  /\ FillOps(Twin(traits), EmptyOps) = FillOps(traits, EmptyOps)
  /\ pre /= NULL =>
       LET r == CallOpSetFinalizeResult(Pre)
           g == CallOpSetFinalizeResult([Pre EXCEPT !.traits = Twin(@)])
       IN [g EXCEPT !.traits = Twin(@)] = r

C17_Witness ==
  /\ Finalized /\ rawSuccess
  /\ \E i, j \in armed :
       /\ kinds[i] = "CallOpRecvMessage" /\ kinds[j] = "CallOpGenericRecvMessage"
       /\ traits[i].got_message /\ deserialized[i] = 1
       /\ ~status /\ destroyed[j] = 1

\* A client batch <CallOpClientRecvStatus> armed with destination 1 to which
\* the core delivered what the send-status op carries, unchanged.
ClientOf(op) ==
  LET u == Indeterminate
      t == SetClientRecvStatus(NewTrait("CallOpClientRecvStatus", u), Ptr(1))
      d == [t EXCEPT !.status_code_ = op.status,
                     !.status_details_ = op.status_details,
                     !.recv_trailing_metadata_arr_ = op.trailing_metadata]
  IN [Memory(TRUE, Self) EXCEPT
        !.traits = [j \in Slots |-> IF j = 1 THEN d ELSE NewTrait("CallNoOp", u)]]

\* The send-status ops in the native array that an armed trait contributed:
\* the array positions.
SentStatusOps ==
  {k \in 1..Len(ops) : /\ ops[k].op = "GRPC_OP_SEND_STATUS_FROM_SERVER"
                       /\ fillTrace[k] \in armed}

\* C18: the Status an armed CallOpClientRecvStatus writes on finalize, when
\* the core delivered to it the code and details pointer an armed
\* CallOpServerSendStatus contributed for a Status s, equals s, for every
\* code and details string; empty details travel as a null pointer and come
\* back as the empty string.
C18_StatusRoundTrip ==
  phase /= "idle" =>
    \A k \in SentStatusOps :
      LET t == traits[fillTrace[k]]
          r == FinishOpClientRecvStatus(ClientOf(ops[k]), 1)
      IN /\ ~r.fatal
         /\ r.recv_status[1] = Status(t.send_status_code_, t.send_status_details_)
         /\ (t.send_status_details_ = "") = (ops[k].status_details = NULL)

C18_Witness ==
  /\ phase = "submitted"
  /\ \E k \in SentStatusOps :
       /\ traits[fillTrace[k]].send_status_code_ = 2
       /\ traits[fillTrace[k]].send_status_details_ = ""
       /\ ops[k].status_details = NULL
       /\ FinishOpClientRecvStatus(ClientOf(ops[k]), 1).recv_status[1]
            = Status(2, "")

\* C19: over any sequence of SendMessage, FillOps and FinalizeResult calls on
\* one batch, a serialized send buffer is released at most once, and FillOps
\* contributes no send-message op whose buffer an earlier FinalizeResult
\* released.
C19_SendBufferOnce ==
  /\ \A i \in Slots : sendReleased[i] <= 1
  /\ phase = "submitted" =>
       \A k \in 1..Len(ops) :
         ops[k].op = "GRPC_OP_SEND_MESSAGE" => sendReleased[fillTrace[k]] = 0

=============================================================================
